---- MODULE Spec2Model ----
(***************************************************************************)
(* State-machine model of the MISP DXL service (dxlmispservice):           *)
(*   - the ZeroMQ notification relay and its shutdown (app.py),            *)
(*   - the request dispatcher (_requesthandlers.py),                       *)
(*   - the resolution of configured API names and the registration of     *)
(*     the service (app.py),                                               *)
(*   - the reading of the configuration (app.py).                          *)
(* Strings are sequences of fragments; the fragments " " and "," are the   *)
(* space and the comma, every other fragment is a run of other characters. *)
(***************************************************************************)
EXTENDS Integers, Sequences, FiniteSets, TLC

VARIABLES
    phase,              \* "constructed" | "loaded": has on_load_configuration run
    service_unique_id,  \* self._service_unique_id
    topics,             \* self._zeromq_notification_topics
    destroyed,          \* self.__destroyed
    lockOwner,          \* holder of self.__lock (None when free)
    zeromq_socket,      \* self._zeromq_socket: None | "open" | "closed"
    zeromq_thread,      \* self._zeromq_thread: None | "started"
    clientAlive,        \* the DXL client behind self.client is not torn down
    lpc,                \* position of the listener thread
    inbox,              \* messages queued on the subscription socket
    message,            \* local `message` of the listener loop
    received,           \* history: messages returned by recv_string, in order
    events,             \* history: events handed to self.client.send_event
    dpc,                \* position of each destroy() caller
    calls,              \* destroy() calls begun so far
    returned,           \* destroy() calls that have returned
    closeCount,         \* history: calls of self._zeromq_socket.close()
    joinCount,          \* history: calls of self._zeromq_thread.join()
    exitCount,          \* history: times the listener thread ended
    sentAfterClose,     \* history: events handed over after the socket closed
    stream,             \* history: messages the stream queued on the socket
    pollErrors,         \* transient poll failures so far
    requests,           \* on_request invocations, one record each, by arrival
    responses,          \* history: responses handed to client.send_response
    api_names,          \* self._api_names
    api_client,         \* self._api_client: None | "PyMISP"
    regpc,              \* position of on_register_services
    regpos,             \* index of the loop over self._api_names
    api_methods,        \* local api_methods of on_register_services
    warnings,           \* history: names logged as invalid
    service,            \* local service: None | "created" | "registered"
    callbacks,          \* history: add_request_callback calls, in order
    config,             \* self.config: the settings of the General section
    resolved            \* history: the last _get_setting_from_config call

relayVars == <<phase, service_unique_id, topics, destroyed, lockOwner,
               zeromq_socket, zeromq_thread, clientAlive, lpc, inbox, message,
               received, events, dpc, calls, returned, closeCount, joinCount,
               exitCount, sentAfterClose, stream, pollErrors>>

requestVars == <<requests, responses>>

registerVars == <<api_names, api_client, regpc, regpos, api_methods, warnings,
                  service, callbacks>>

configVars == <<config, resolved>>

vars == <<relayVars, requestVars, registerVars, configVars>>

\* what the relay, the dispatcher and the registration each leave alone
notRelayVars == <<requestVars, registerVars, configVars>>

notRequestVars == <<relayVars, registerVars, configVars>>

----------------------------------------------------------------------------
(* Bounds *)

MaxMsgs == 2        \* notifications delivered by the stream in one run
MaxCalls == 3       \* destroy() calls issued in one run, by any caller
MaxPollErrors == 1  \* transient poll failures in one run
MaxRequests == 2    \* requests delivered to the dispatcher in one run
MaxNames == 2       \* names in the configured list of API names

Callers == {"t1", "t2"}     \* threads that may call destroy()

None == "None"
SP == " "
BadByte == "0xFF"          \* a byte that is not valid UTF-8

----------------------------------------------------------------------------
(* Values *)

\* an optional string is <<>> (Python None) or <<s>>
NoString == <<>>

Some(s) == <<s>>

IdValues == {NoString, Some(<<>>), Some(<<"id">>)}

TopicConfigs == {<<>>, << <<>> >>, << <<"foo">> >>}

RawMessages ==
    { <<"foo", "/", "bar", SP, "hello", SP, "world">>,
      <<"foo">>,
      <<SP, "x">>,
      <<"baz", SP, "y">>,
      <<"foo", BadByte>> }

\* Python truthiness of an optional string
Truthy(v) == v # NoString /\ v[1] # <<>>

IsPrefix(p, s) == Len(p) <= Len(s) /\ SubSeq(s, 1, Len(p)) = p

_SERVICE_BASE_NAME == <<"/opendxl-misp/service">>

_ZEROMQ_NOTIFICATIONS_EVENT_TOPIC == _SERVICE_BASE_NAME \o <<"/zeromq-notifications">>

----------------------------------------------------------------------------
(* Pure helpers of the listener loop *)

\* index of the first space of s, 0 when s has none
FirstSpaceMutLast(s) ==
    IF \E i \in 1..Len(s) : s[i] = SP
    THEN CHOOSE i \in 1..Len(s) : s[i] = SP /\ \A j \in (i+1)..Len(s) : s[j] # SP
    ELSE 0

FirstSpace(s) ==
    IF \E i \in 1..Len(s) : s[i] = SP
    THEN CHOOSE i \in 1..Len(s) : s[i] = SP /\ \A j \in 1..(i-1) : s[j] # SP
    ELSE 0

\* str.partition(" "): <<head, separator, tail>>
Partition(s) ==
    LET k == FirstSpace(s)
    IN  IF k = 0 THEN <<s, <<>>, <<>>>>
        ELSE <<SubSeq(s, 1, k-1), <<SP>>, SubSeq(s, k+1, Len(s))>>

\* "{}{}/{}".format(base, "/{}".format(uid) if uid else "", topic)
FullEventTopic(uid, topic) ==
    _ZEROMQ_NOTIFICATIONS_EVENT_TOPIC
        \o (IF Truthy(uid) THEN <<"/">> \o uid[1] ELSE <<>>)
        \o <<"/">> \o topic

\* the Event built from one received message
MakeEvent(uid, msg) ==
    LET p == Partition(msg)
    IN  [topic |-> FullEventTopic(uid, p[1]), payload |-> p[3]]

\* zmq SUB socket: a message is queued when one subscription is a prefix of it
Subscribed(subs, msg) == \E i \in 1..Len(subs) : IsPrefix(subs[i], msg)

----------------------------------------------------------------------------
(* Initial state: after MispService.__init__ *)

RelayInit ==
    /\ phase = "constructed"
    /\ service_unique_id = NoString
    /\ topics = <<>>
    /\ destroyed = FALSE
    /\ lockOwner = None
    /\ zeromq_socket = None
    /\ zeromq_thread = None
    /\ clientAlive = TRUE
    /\ lpc = "none"
    /\ inbox = <<>>
    /\ message = NoString
    /\ received = <<>>
    /\ events = <<>>
    /\ dpc = [c \in Callers |-> "idle"]
    /\ calls = 0
    /\ returned = 0
    /\ closeCount = 0
    /\ joinCount = 0
    /\ exitCount = 0
    /\ sentAfterClose = 0
    /\ stream = <<>>
    /\ pollErrors = 0

NoDestroyBegun == calls = 0

----------------------------------------------------------------------------
(* on_load_configuration, with _start_zeromq_listener inlined: the API     *)
(* client is built only for a non-empty list of names, and the socket is   *)
(* opened and subscribed and the thread started only for a non-empty list  *)
(* of topics.                                                              *)

\* The application runs its start-up and its destroy() under one lock of its
\* own, so the configuration is loaded before any destroy() begins.
LoadConfiguration(uid, names, tps) ==
    /\ phase = "constructed"
    /\ NoDestroyBegun
    /\ phase' = "loaded"
    /\ service_unique_id' = uid
    /\ api_names' = names
    /\ api_client' = IF names # <<>> THEN "PyMISP" ELSE None
    /\ topics' = tps
    /\ IF tps # <<>>
       THEN /\ zeromq_socket' = "open"
            /\ zeromq_thread' = "started"
            /\ lpc' = "check"
       ELSE UNCHANGED <<zeromq_socket, zeromq_thread, lpc>>
    /\ UNCHANGED <<requestVars, configVars, regpc, regpos, api_methods,
                   warnings, service, callbacks, destroyed, lockOwner,
                   clientAlive, inbox, message, received, events, dpc, calls,
                   returned, closeCount, joinCount, exitCount, sentAfterClose,
                   stream, pollErrors>>

\* the notification stream publishes a message matching a subscription
Deliver(msg) ==
    /\ zeromq_socket = "open"
    /\ Len(stream) < MaxMsgs
    /\ Subscribed(topics, msg)
    /\ inbox' = Append(inbox, msg)
    /\ stream' = Append(stream, msg)
    /\ UNCHANGED <<notRelayVars, phase, service_unique_id, topics, destroyed, lockOwner,
                   zeromq_socket, zeromq_thread, clientAlive, lpc, message,
                   received, events, dpc, calls, returned, closeCount,
                   joinCount, exitCount, sentAfterClose, pollErrors>>

----------------------------------------------------------------------------
(* _process_zeromq_messages, one action per step of the loop *)

listenerLocal == <<notRelayVars, phase, service_unique_id, topics, destroyed, lockOwner,
                   zeromq_socket, zeromq_thread, clientAlive, dpc, calls,
                   returned, closeCount, joinCount, stream>>

\* while not self.__destroyed
LoopContinues(d) == ~d

ListenerCheck ==
    /\ lpc = "check"
    /\ IF LoopContinues(destroyed)
       THEN lpc' = "poll" /\ UNCHANGED exitCount
       ELSE lpc' = "exited" /\ exitCount' = exitCount + 1
    /\ UNCHANGED <<listenerLocal, inbox, message, received, events,
                   sentAfterClose, pollErrors>>

\* poll(timeout=None) blocks until a message is queued or the socket is closed
PollWakesMutNoWakeOnClose(sock, queue) == sock = "open" /\ queue # <<>>

PollWakes(sock, queue) == sock = "closed" \/ queue # <<>>

\* poll returned POLLIN for the socket: the loop goes on to recv_string
ListenerPollReady ==
    /\ lpc = "poll"
    /\ PollWakes(zeromq_socket, inbox)
    /\ zeromq_socket = "open"
    /\ lpc' = "recv"
    /\ UNCHANGED <<listenerLocal, inbox, message, received, events, exitCount,
                   sentAfterClose, pollErrors>>

\* poll raised ZMQError (socket closed, or a transient failure): socks = {}
ListenerPollErrorMutUncaught ==
    /\ lpc = "poll"
    /\ \/ /\ PollWakes(zeromq_socket, inbox)
          /\ zeromq_socket = "closed"
          /\ UNCHANGED pollErrors
       \/ /\ zeromq_socket = "open"
          /\ pollErrors < MaxPollErrors
          /\ pollErrors' = pollErrors + 1
    /\ lpc' = "died"
    /\ exitCount' = exitCount + 1
    /\ UNCHANGED <<listenerLocal, inbox, message, received, events,
                   sentAfterClose>>

ListenerPollError ==
    /\ lpc = "poll"
    /\ \/ /\ PollWakes(zeromq_socket, inbox)
          /\ zeromq_socket = "closed"
          /\ UNCHANGED pollErrors
       \/ /\ zeromq_socket = "open"
          /\ pollErrors < MaxPollErrors
          /\ pollErrors' = pollErrors + 1
    /\ lpc' = "check"
    /\ UNCHANGED <<listenerLocal, inbox, message, received, events, exitCount,
                   sentAfterClose>>

\* recv_string() returns the oldest queued message
RecvStringMutNewest(queue) == queue[Len(queue)]

RecvString(queue) == Head(queue)

\* recv_string() decodes the bytes it read as UTF-8
Decodes(msg) == \A i \in 1..Len(msg) : msg[i] # BadByte

\* message = self._zeromq_socket.recv_string(); on a closed socket the call
\* raises ZMQError, and on bytes that are not UTF-8 it raises
\* UnicodeDecodeError after taking the message off the queue; nothing catches
\* either: the thread ends
ListenerRecv ==
    /\ lpc = "recv"
    /\ IF zeromq_socket = "open"
       THEN IF Decodes(RecvString(inbox))
            THEN /\ message' = Some(RecvString(inbox))
                 /\ inbox' = Tail(inbox)
                 /\ received' = Append(received, RecvString(inbox))
                 /\ lpc' = "send"
                 /\ UNCHANGED exitCount
            ELSE /\ inbox' = Tail(inbox)
                 /\ lpc' = "died"
                 /\ exitCount' = exitCount + 1
                 /\ UNCHANGED <<message, received>>
       ELSE /\ lpc' = "died"
            /\ exitCount' = exitCount + 1
            /\ UNCHANGED <<message, inbox, received>>
    /\ UNCHANGED <<listenerLocal, events, sentAfterClose, pollErrors>>

\* partition, format the topic, build the Event, self.client.send_event(event).
\* On a client already torn down the call may raise (the thread ends) or be
\* dropped by the client (the loop goes on).
ListenerSend(raises) ==
    /\ lpc = "send"
    /\ events' = Append(events, [ev |-> MakeEvent(service_unique_id, message[1]),
                                 live |-> clientAlive])
    /\ sentAfterClose' = IF zeromq_socket = "closed" THEN sentAfterClose + 1
                         ELSE sentAfterClose
    /\ message' = NoString
    /\ IF ~clientAlive /\ raises
       THEN lpc' = "died" /\ exitCount' = exitCount + 1
       ELSE lpc' = "check" /\ UNCHANGED exitCount
    /\ UNCHANGED <<listenerLocal, inbox, received, pollErrors>>

ListenerStep ==
    \/ ListenerCheck
    \/ ListenerPollReady
    \/ ListenerPollError
    \/ ListenerRecv
    \/ \E raises \in BOOLEAN : ListenerSend(raises)

ListenerGone == zeromq_thread = None \/ lpc \in {"exited", "died"}

----------------------------------------------------------------------------
(* destroy(), one action per step *)

destroyLocal == <<notRelayVars, phase, service_unique_id, topics, lpc, inbox, message,
                  received, events, exitCount, sentAfterClose, stream,
                  pollErrors>>

\* a caller enters destroy()
DestroyCall(c) ==
    /\ dpc[c] = "idle"
    /\ calls < MaxCalls
    /\ calls' = calls + 1
    /\ dpc' = [dpc EXCEPT ![c] = "super"]
    /\ UNCHANGED <<destroyLocal, destroyed, lockOwner, zeromq_socket,
                   zeromq_thread, clientAlive, returned, closeCount, joinCount>>

\* super(MispService, self).destroy(): the application tears its DXL client down
DestroySuper(c) ==
    /\ dpc[c] = "super"
    /\ clientAlive' = FALSE
    /\ dpc' = [dpc EXCEPT ![c] = "lock"]
    /\ UNCHANGED <<destroyLocal, destroyed, lockOwner, zeromq_socket,
                   zeromq_thread, calls, returned, closeCount,
                   joinCount>>

\* with self.__lock: (an RLock: free, or already held by the same thread)
LockFreeForMutNoLock(owner, c) == TRUE

LockFreeFor(owner, c) == owner = None \/ owner = c

DestroyAcquire(c) ==
    /\ dpc[c] = "lock"
    /\ LockFreeFor(lockOwner, c)
    /\ lockOwner' = c
    /\ dpc' = [dpc EXCEPT ![c] = "test"]
    /\ UNCHANGED <<destroyLocal, destroyed, zeromq_socket, zeromq_thread,
                   clientAlive, calls, returned, closeCount, joinCount>>

\* if not self.__destroyed: self.__destroyed = True
FirstDestroyMutNoGuard(d) == TRUE

FirstDestroy(d) == ~d

DestroyTest(c) ==
    /\ dpc[c] = "test"
    /\ IF FirstDestroy(destroyed)
       THEN /\ destroyed' = TRUE
            /\ dpc' = [dpc EXCEPT ![c] = "close"]
       ELSE /\ dpc' = [dpc EXCEPT ![c] = "release"]
            /\ UNCHANGED destroyed
    /\ UNCHANGED <<destroyLocal, lockOwner, zeromq_socket, zeromq_thread,
                   clientAlive, calls, returned, closeCount, joinCount>>

\* if self._zeromq_socket: self._zeromq_socket.close()
DestroyClose(c) ==
    /\ dpc[c] = "close"
    /\ IF zeromq_socket # None
       THEN zeromq_socket' = "closed" /\ closeCount' = closeCount + 1
       ELSE UNCHANGED <<zeromq_socket, closeCount>>
    /\ dpc' = [dpc EXCEPT ![c] = "join"]
    /\ UNCHANGED <<destroyLocal, destroyed, lockOwner, zeromq_thread,
                   clientAlive, calls, returned, joinCount>>

\* if self._zeromq_thread: self._zeromq_thread.join()
DestroyJoinMutNoWait(c) ==
    /\ dpc[c] = "join"
    /\ IF zeromq_thread # None
       THEN joinCount' = joinCount + 1
       ELSE UNCHANGED joinCount
    /\ dpc' = [dpc EXCEPT ![c] = "release"]
    /\ UNCHANGED <<destroyLocal, destroyed, lockOwner, zeromq_socket,
                   zeromq_thread, clientAlive, calls, returned, closeCount>>

DestroyJoin(c) ==
    /\ dpc[c] = "join"
    /\ IF zeromq_thread # None
       THEN /\ lpc \in {"exited", "died"}
            /\ joinCount' = joinCount + 1
       ELSE UNCHANGED joinCount
    /\ dpc' = [dpc EXCEPT ![c] = "release"]
    /\ UNCHANGED <<destroyLocal, destroyed, lockOwner, zeromq_socket,
                   zeromq_thread, clientAlive, calls, returned, closeCount>>

\* leaving the with block releases the lock; destroy() returns
DestroyReturn(c) ==
    /\ dpc[c] = "release"
    /\ lockOwner' = None
    /\ dpc' = [dpc EXCEPT ![c] = "idle"]
    /\ returned' = returned + 1
    /\ UNCHANGED <<destroyLocal, destroyed, zeromq_socket, zeromq_thread,
                   clientAlive, calls, closeCount, joinCount>>

DestroyStep(c) ==
    \/ DestroySuper(c)
    \/ DestroyAcquire(c)
    \/ DestroyTest(c)
    \/ DestroyClose(c)
    \/ DestroyJoin(c)
    \/ DestroyReturn(c)

----------------------------------------------------------------------------
(* Request payloads and their decoding *)

\* JSON literals of a payload, and the Python values they decode to
JString(s) == [tok |-> "string", s |-> s, n |-> 0]

JNumber(n) == [tok |-> "number", s |-> <<>>, n |-> n]

PyStr(s) == [type |-> "str", s |-> s, n |-> 0]

PyInt(n) == [type |-> "int", s |-> <<>>, n |-> n]

FromJson(lit) == IF lit.tok = "string" THEN PyStr(lit.s) ELSE PyInt(lit.n)

Member(k, lit) == [k |-> k, v |-> lit]

\* request.payload: None, empty, the text of a JSON object (its members in
\* the order written), the text of a JSON array, or text that is not JSON
NoPayload == [kind |-> "none", members |-> <<>>]

EmptyPayload == [kind |-> "empty", members |-> <<>>]

ObjectPayload(ms) == [kind |-> "object", members |-> ms]

ArrayPayload == [kind |-> "array", members |-> <<>>]

MalformedPayload == [kind |-> "malformed", members |-> <<>>]

\* "^2" stands for the character SUPERSCRIPT TWO
EventLiterals ==
    { JString(<<"4", "2">>), JString(<<"0", "7">>), JString(<<"a">>),
      JString(<<"4", "a">>), JString(<<>>), JString(<<"^2">>), JNumber(7) }

Payloads ==
    {NoPayload, EmptyPayload, ArrayPayload, MalformedPayload}
    \cup {ObjectPayload(<<>>)}
    \cup {ObjectPayload(<<Member("event", e)>>) : e \in EventLiterals}
    \cup {ObjectPayload(<<Member("org", JString(<<"4", "2">>)), Member("event", e)>>) :
             e \in {JString(<<"4", "2">>), JString(<<"a">>)}}
    \cup {ObjectPayload(<<Member("org", JString(<<"4", "2">>))>>),
          ObjectPayload(<<Member("event", JString(<<"a">>)),
                          Member("event", JString(<<"4", "2">>))>>)}

\* a dict is a set of <<key, value>> pairs with one pair for a key
HasKey(d, k) == \E kv \in d : kv[1] = k

Get(d, k) == (CHOOSE kv \in d : kv[1] = k)[2]

\* MessageUtils.json_payload_to_dict on the text of a JSON object: a key
\* written twice keeps its last value
JsonPayloadToDict(ms) ==
    { <<ms[i].k, FromJson(ms[i].v)>> :
        i \in {j \in 1..Len(ms) : \A l \in (j+1)..Len(ms) : ms[l].k # ms[j].k} }

\* if request.payload: falsy for None and for the empty payload
PayloadTruthyMutNoneOnly(p) == p.kind # "none"

PayloadTruthy(p) == p.kind \notin {"none", "empty"}

DecimalChars == {"0", "2", "4", "7"}

DigitChars == DecimalChars \cup {"^2"}

\* str.isdigit(): not empty, and every character is a digit
IsDigit(s) == Len(s) > 0 /\ \A i \in 1..Len(s) : s[i] \in DigitChars

\* int(s) accepts decimal digits only
IntParses(s) == \A i \in 1..Len(s) : s[i] \in DecimalChars

DigitValue(ch) ==
    CASE ch = "0" -> 0 [] ch = "2" -> 2 [] ch = "4" -> 4 [] ch = "7" -> 7

RECURSIVE IntOf(_)
IntOf(s) ==
    IF s = <<>> THEN 0
    ELSE 10 * IntOf(SubSeq(s, 1, Len(s) - 1)) + DigitValue(s[Len(s)])

\* the condition of the coercion (lines 39-41)
NeedsCoercion(d) ==
    /\ HasKey(d, "event")
    /\ Get(d, "event").type \in {"str", "unicode"}
    /\ IsDigit(Get(d, "event").s)

\* request_dict["event"] = int(request_dict["event"])
Coerce(d) ==
    { kv \in d : kv[1] # "event" }
        \cup { <<"event", PyInt(IntOf(Get(d, "event").s))>> }

----------------------------------------------------------------------------
(* MispServiceRequestCallback.on_request.  Each request is one invocation  *)
(* of on_request on a thread of the transport; invocations interleave.     *)
(* A record of `requests` holds the locals of one invocation:              *)
(*   st      where it is: "invoke" (before line 44), "respond" (before     *)
(*           line 45), "done" (returned) or "raised" (left by an exception)*)
(*   dict    request_dict                                                  *)
(*   parsed  whether json_payload_to_dict was called                       *)
(*   invoked how many times the bound operation was called                 *)
(*   args    the arguments of that call                                    *)
(*   outcome what the operation did: "returns" (a result json can encode), *)
(*           "unserializable" (a result it cannot) or "raises"             *)
(*   exc     the exception that left on_request                            *)

RequestInit ==
    /\ requests = <<>>
    /\ responses = <<>>

NewRequest(p, st, d, parsed, exc) ==
    [payload |-> p, st |-> st, dict |-> d, parsed |-> parsed, invoked |-> 0,
     args |-> {}, outcome |-> "none", exc |-> exc]

\* lines 35-42: build the Response, decode the payload, coerce "event"
OnRequest(p) ==
    /\ Len(requests) < MaxRequests
    /\ requests' = Append(requests,
         IF ~PayloadTruthy(p) THEN NewRequest(p, "invoke", {}, FALSE, "none")
         ELSE IF p.kind = "malformed"
              THEN NewRequest(p, "raised", {}, TRUE, "ValueError")
         ELSE IF p.kind = "array"
              THEN NewRequest(p, "invoke", {}, TRUE, "none")
         ELSE LET d == JsonPayloadToDict(p.members)
              IN  IF ~NeedsCoercion(d)
                  THEN NewRequest(p, "invoke", d, TRUE, "none")
                  ELSE IF IntParses(Get(d, "event").s)
                       THEN NewRequest(p, "invoke", Coerce(d), TRUE, "none")
                       ELSE NewRequest(p, "raised", d, TRUE, "ValueError"))
    /\ UNCHANGED <<responses, notRequestVars>>

Outcomes == {"returns", "raises", "unserializable"}

\* line 44: response_data = self._api_method(**request_dict).  A payload that
\* is not a mapping cannot be expanded: TypeError before the call.
InvokeMutSwallow(i, outcome) ==
    /\ i \in 1..Len(requests)
    /\ requests[i].st = "invoke"
    /\ requests' = [requests EXCEPT ![i] =
         IF requests[i].payload.kind = "array"
         THEN [@ EXCEPT !.st = "raised", !.exc = "TypeError"]
         ELSE [@ EXCEPT !.invoked = @ + 1, !.args = requests[i].dict,
                        !.st = "respond", !.outcome = outcome]]
    /\ UNCHANGED <<responses, notRequestVars>>

\* the handlers share one argument dict: each call gets the first request's
InvokeMutSharedDict(i, outcome) ==
    /\ i \in 1..Len(requests)
    /\ requests[i].st = "invoke"
    /\ requests' = [requests EXCEPT ![i] =
         IF requests[i].payload.kind = "array"
         THEN [@ EXCEPT !.st = "raised", !.exc = "TypeError"]
         ELSE IF outcome = "raises"
              THEN [@ EXCEPT !.invoked = @ + 1, !.args = requests[1].dict,
                             !.st = "raised", !.exc = "OperationError",
                             !.outcome = outcome]
              ELSE [@ EXCEPT !.invoked = @ + 1, !.args = requests[1].dict,
                             !.st = "respond", !.outcome = outcome]]
    /\ UNCHANGED <<responses, notRequestVars>>

Invoke(i, outcome) ==
    /\ i \in 1..Len(requests)
    /\ requests[i].st = "invoke"
    /\ requests' = [requests EXCEPT ![i] =
         IF requests[i].payload.kind = "array"
         THEN [@ EXCEPT !.st = "raised", !.exc = "TypeError"]
         ELSE IF outcome = "raises"
              THEN [@ EXCEPT !.invoked = @ + 1, !.args = requests[i].dict,
                             !.st = "raised", !.exc = "OperationError",
                             !.outcome = outcome]
              ELSE [@ EXCEPT !.invoked = @ + 1, !.args = requests[i].dict,
                             !.st = "respond", !.outcome = outcome]]
    /\ UNCHANGED <<responses, notRequestVars>>

\* res = Response(request): the response carries the request's identity
ResponseForMutFirst(i, data) == [request |-> 1, payload |-> data]

ResponseFor(i, data) == [request |-> i, payload |-> data]

\* lines 45-47: dict_to_json_payload(res, response_data), send_response(res).
\* A result json cannot encode raises TypeError before anything is sent.
Respond(i) ==
    /\ i \in 1..Len(requests)
    /\ requests[i].st = "respond"
    /\ IF requests[i].outcome = "unserializable"
       THEN /\ requests' = [requests EXCEPT ![i] =
                               [@ EXCEPT !.st = "raised", !.exc = "TypeError"]]
            /\ UNCHANGED <<responses, notRequestVars>>
       ELSE /\ requests' = [requests EXCEPT ![i] = [@ EXCEPT !.st = "done"]]
            /\ responses' = Append(responses, ResponseFor(i, requests[i].outcome))
    /\ UNCHANGED notRequestVars

----------------------------------------------------------------------------
(* The API client and the resolution of the configured names *)

\* attribute names a configuration may list
ApiNameValues == {"search", "get_event", "root_url", "nope", ""}

RECURSIVE SeqsUpTo(_, _)
SeqsUpTo(S, n) ==
    IF n = 0 THEN {<<>>}
    ELSE LET shorter == SeqsUpTo(S, n - 1)
         IN  shorter \cup {Append(q, x) : q \in shorter, x \in S}

NameLists == SeqsUpTo(ApiNameValues, MaxNames)

\* the attributes of the PyMISP client: two methods and one data attribute
Method(name) == [kind |-> "method", name |-> name]

Data(name) == [kind |-> "data", name |-> name]

ClientAttributes == {Method("search"), Method("get_event"), Data("root_url")}

\* hasattr(self._api_client, api_name)
HasAttr(client, name) ==
    client # None /\ \E a \in ClientAttributes : a.name = name

\* getattr(self._api_client, api_name)
GetAttr(client, name) == CHOOSE a \in ClientAttributes : a.name = name

Callable(attr) == attr.kind = "method"

\* an optional method is <<>> (Python None) or <<method>>
NoMethod == <<>>

\* _get_api_method
GetApiMethodMutNoCallableTest(client, name) ==
    IF HasAttr(client, name) THEN <<GetAttr(client, name)>> ELSE NoMethod

GetApiMethod(client, name) ==
    IF HasAttr(client, name)
    THEN LET api_attr == GetAttr(client, name)
         IN  IF Callable(api_attr) THEN <<api_attr>> ELSE NoMethod
    ELSE NoMethod

RegisterInit ==
    /\ api_names = <<>>
    /\ api_client = None
    /\ regpc = "idle"
    /\ regpos = 0
    /\ api_methods = <<>>
    /\ warnings = <<>>
    /\ service = None
    /\ callbacks = <<>>

notRegisterVars == <<relayVars, requestVars, configVars>>

\* on_register_services is entered: api_methods = []
RegisterBegin ==
    /\ phase = "loaded"
    /\ regpc = "idle"
    /\ regpc' = "resolving"
    /\ regpos' = 1
    /\ api_methods' = <<>>
    /\ UNCHANGED <<api_names, api_client, warnings, service, callbacks,
                   notRegisterVars>>

\* one turn of the loop over self._api_names (lines 328-334)
ResolveName ==
    /\ regpc = "resolving"
    /\ regpos <= Len(api_names)
    /\ LET api_method == GetApiMethod(api_client, api_names[regpos])
       IN  IF api_method # NoMethod
           THEN /\ api_methods' = Append(api_methods, api_method[1])
                /\ UNCHANGED warnings
           ELSE /\ warnings' = Append(warnings, api_names[regpos])
                /\ UNCHANGED api_methods
    /\ regpos' = regpos + 1
    /\ UNCHANGED <<api_names, api_client, regpc, service, callbacks,
                   notRegisterVars>>

\* the loop is over
ResolveDone ==
    /\ regpc = "resolving"
    /\ regpos > Len(api_names)
    /\ regpc' = "resolved"
    /\ UNCHANGED <<api_names, api_client, regpos, api_methods, warnings,
                   service, callbacks, notRegisterVars>>

\* _SERVICE_TYPE = _SERVICE_BASE_NAME + "/misp-api"
_SERVICE_TYPE == _SERVICE_BASE_NAME \o <<"/misp-api">>

\* api_method.__name__: a method carries the name it was defined under
MethodName(api_method) == api_method.name

\* "{}{}/{}".format(_SERVICE_TYPE, "/{}".format(uid) if uid else "", name)
ServiceTopicMutNoName(uid, name) ==
    _SERVICE_TYPE \o (IF Truthy(uid) THEN <<"/">> \o uid[1] ELSE <<>>)

ServiceTopic(uid, name) ==
    _SERVICE_TYPE
        \o (IF Truthy(uid) THEN <<"/">> \o uid[1] ELSE <<>>)
        \o <<"/", name>>

\* if api_methods: service = ServiceRegistrationInfo(...)  (lines 336-340)
CreateService ==
    /\ regpc = "resolved"
    /\ IF api_methods # <<>>
       THEN /\ service' = "created"
            /\ regpc' = "adding"
            /\ regpos' = 1
       ELSE /\ regpc' = "done"
            /\ UNCHANGED <<service, regpos>>
    /\ UNCHANGED <<api_names, api_client, api_methods, warnings, callbacks,
                   notRegisterVars>>

\* one turn of the loop over api_methods (lines 342-361): a new
\* MispServiceRequestCallback bound to the method is added under its topic
AddRequestCallback ==
    /\ regpc = "adding"
    /\ regpos <= Len(api_methods)
    /\ LET api_method == api_methods[regpos]
           topic == ServiceTopic(service_unique_id, MethodName(api_method))
       IN  callbacks' = Append(callbacks,
                               [topic |-> topic, api_method |-> api_method])
    /\ regpos' = regpos + 1
    /\ UNCHANGED <<api_names, api_client, regpc, api_methods, warnings, service,
                   notRegisterVars>>

\* self.register_service(service) (line 363)
RegisterService ==
    /\ regpc = "adding"
    /\ regpos > Len(api_methods)
    /\ service' = "registered"
    /\ regpc' = "done"
    /\ UNCHANGED <<api_names, api_client, regpos, api_methods, warnings,
                   callbacks, notRegisterVars>>

----------------------------------------------------------------------------
(* The configuration and _get_setting_from_config *)

COMMA == ","

Settings ==
    {"serviceUniqueId", "host", "apiPort", "apiNames", "apiKey",
     "verifyCertificate", "verifyCertBundle", "clientCertificate",
     "clientKey", "zeroMqNotificationTopics", "zeroMqPort"}

\* a snapshot gives every setting its raw string, or NoString when the
\* General section does not have the option
NoConfig == [k \in Settings |-> NoString]

_DEFAULT_API_PORT == 443

_DEFAULT_ZEROMQ_PORT == 50000

\* the directory of the configuration file, and the files that exist
ConfigDir == <<"/etc/misp/">>

ExistingFiles == {ConfigDir \o <<"ca.pem">>}

\* Python values a setting can resolve to
NoneValue == [type |-> "NoneType", s |-> <<>>, l |-> <<>>, b |-> FALSE, n |-> 0]

StrValue(s) == [type |-> "str", s |-> s, l |-> <<>>, b |-> FALSE, n |-> 0]

ListValue(l) == [type |-> "list", s |-> <<>>, l |-> l, b |-> FALSE, n |-> 0]

BoolValue(b) == [type |-> "bool", s |-> <<>>, l |-> <<>>, b |-> b, n |-> 0]

IntValue(n) == [type |-> "int", s |-> <<>>, l |-> <<>>, b |-> FALSE, n |-> n]

FloatValue(n) == [type |-> "float", s |-> <<>>, l |-> <<>>, b |-> FALSE, n |-> n]

\* Python truthiness
ValueTruthy(v) ==
    CASE v.type = "NoneType" -> FALSE
      [] v.type = "str" -> v.s # <<>>
      [] v.type = "list" -> v.l # <<>>
      [] v.type = "bool" -> v.b
      [] OTHER -> v.n # 0

\* str.strip()
RECURSIVE StripLeft(_)
StripLeft(s) == IF s # <<>> /\ Head(s) = SP THEN StripLeft(Tail(s)) ELSE s

RECURSIVE StripRight(_)
StripRight(s) ==
    IF s # <<>> /\ s[Len(s)] = SP THEN StripRight(SubSeq(s, 1, Len(s) - 1))
    ELSE s

Strip(s) == StripRight(StripLeft(s))

\* str.split(","): always at least one item
FirstComma(s) ==
    IF \E i \in 1..Len(s) : s[i] = COMMA
    THEN CHOOSE i \in 1..Len(s) :
            s[i] = COMMA /\ \A j \in 1..(i-1) : s[j] # COMMA
    ELSE 0

RECURSIVE Split(_)
Split(s) ==
    LET k == FirstComma(s)
    IN  IF k = 0 THEN <<s>>
        ELSE <<SubSeq(s, 1, k - 1)>> \o Split(SubSeq(s, k + 1, Len(s)))

\* [item.strip() for item in return_value.split(",")]
SplitItemsMutDropEmpty(s) ==
    SelectSeq([i \in 1..Len(Split(s)) |-> Strip(Split(s)[i])],
              LAMBDA item : item # <<>>)

SplitItems(s) == [i \in 1..Len(Split(s)) |-> Strip(Split(s)[i])]

\* the words config.getboolean accepts
TrueWords == {<<"1">>, <<"yes">>, <<"true">>, <<"on">>}

FalseWords == {<<"0">>, <<"no">>, <<"false">>, <<"off">>}

\* getter_methods[return_type](section, setting): the value, or ValueError
Getter(return_type, raw) ==
    CASE return_type \in {"str", "list"} ->
            [ok |-> TRUE, value |-> StrValue(raw)]
      [] return_type = "bool" ->
            IF raw \in TrueWords THEN [ok |-> TRUE, value |-> BoolValue(TRUE)]
            ELSE IF raw \in FalseWords
                 THEN [ok |-> TRUE, value |-> BoolValue(FALSE)]
                 ELSE [ok |-> FALSE, value |-> NoneValue]
      [] return_type = "int" ->
            IF Strip(raw) # <<>> /\ IntParses(Strip(raw))
            THEN [ok |-> TRUE, value |-> IntValue(IntOf(Strip(raw)))]
            ELSE [ok |-> FALSE, value |-> NoneValue]
      [] return_type = "float" ->
            IF Strip(raw) # <<>> /\ IntParses(Strip(raw))
            THEN [ok |-> TRUE, value |-> FloatValue(IntOf(Strip(raw)))]
            ELSE [ok |-> FALSE, value |-> NoneValue]

\* self._get_path: a relative path that is no file as given is looked up in
\* the directory of the configuration file
GetPath(in_path) ==
    IF in_path \notin ExistingFiles /\ (ConfigDir \o in_path) \in ExistingFiles
    THEN ConfigDir \o in_path
    ELSE in_path

\* the result of a call: the ValueError raised ("" for none) and the value
Raise(kind) == [raised |-> kind, value |-> NoneValue]

Return(v) == [raised |-> "", value |-> v]

\* if is_file_path and return_value: ... (lines 142-147)
FileChecked(v, is_file_path) ==
    IF is_file_path /\ ValueTruthy(v)
    THEN IF GetPath(v.s) \in ExistingFiles
         THEN Return(StrValue(GetPath(v.s)))
         ELSE Raise("no file")
    ELSE Return(v)

\* required stands for raise_exception_if_missing
GetSettingFromConfig(cfg, setting, default_value, return_type, required, is_file_path) ==
    IF cfg[setting] # NoString
    THEN LET got == Getter(return_type, cfg[setting][1])
         IN  IF ~got.ok THEN Raise("unexpected")
             ELSE IF return_type = "str"
             THEN LET return_value == Strip(got.value.s)
                  IN  IF Len(return_value) = 0 /\ required
                      THEN Raise("empty")
                      ELSE FileChecked(StrValue(return_value), is_file_path)
             ELSE IF return_type = "list"
             THEN LET return_value == SplitItems(got.value.s)
                  IN  IF /\ Len(return_value) = 1
                         /\ Len(return_value[1]) = 0
                         /\ required
                      THEN Raise("empty")
                      ELSE FileChecked(ListValue(return_value), is_file_path)
             ELSE FileChecked(got.value, is_file_path)
    ELSE IF required
         THEN Raise("not found")
         ELSE FileChecked(default_value, is_file_path)

\* a call of _get_setting_from_config on self.config: the call reads the
\* snapshot and returns or raises; it writes nothing
ResolveSetting(setting, default_value, return_type, required, is_file_path) ==
    /\ resolved' =
          <<[setting |-> setting, default_value |-> default_value,
             return_type |-> return_type, required |-> required,
             is_file_path |-> is_file_path, snapshot |-> config,
             result |-> GetSettingFromConfig(config, setting, default_value,
                                             return_type, required,
                                             is_file_path)]>>
    /\ UNCHANGED <<config, relayVars, requestVars, registerVars>>

\* raw strings a setting may hold
RawValues ==
    {NoString, Some(<<>>), Some(<<SP>>), Some(<<COMMA>>), Some(<<"misp">>),
     Some(<<SP, "foo", SP, COMMA, "bar">>), Some(<<"7">>), Some(<<"true">>),
     Some(<<"ca.pem">>), Some(<<"gone.pem">>)}

\* snapshots for single reads: two settings vary
ResolverConfigs ==
    {[NoConfig EXCEPT !["host"] = v, !["apiKey"] = w] :
        v \in RawValues, w \in {NoString, Some(<<"k">>)}}

\* the default values a caller may declare for a return type
Defaults(return_type) ==
    {NoneValue} \cup
    CASE return_type = "str" -> {StrValue(<<"ca.pem">>), StrValue(<<"gone.pem">>)}
      [] return_type = "list" -> {ListValue(<<>>)}
      [] return_type = "bool" -> {BoolValue(TRUE)}
      [] return_type = "int" -> {IntValue(_DEFAULT_API_PORT)}
      [] return_type = "float" -> {FloatValue(_DEFAULT_API_PORT)}

ReturnTypes == {"str", "list", "bool", "int", "float"}

\* snapshots a deployment may hand to on_load_configuration
Configs ==
    [serviceUniqueId : {NoString, Some(<<"id">>)},
     host : {NoString, Some(<<SP>>), Some(<<"misp">>)},
     apiPort : {NoString, Some(<<"x">>)},
     apiNames : {NoString, Some(<<>>), Some(<<"search", COMMA, SP, "nope">>)},
     apiKey : {NoString, Some(<<"k">>)},
     verifyCertificate : {NoString, Some(<<"false">>), Some(<<"maybe">>)},
     verifyCertBundle : {NoString, Some(<<"gone.pem">>)},
     clientCertificate : {NoString, Some(<<"ca.pem">>)},
     clientKey : {NoString, Some(<<"gone.pem">>)},
     zeroMqNotificationTopics :
        {NoString, Some(<<>>), Some(<<"foo">>),
         Some(<<SP, "foo", SP, COMMA, "bar">>)},
     zeroMqPort : {NoString, Some(<<"7">>), Some(<<"x">>)}]

\* self._service_unique_id as the relay keeps it
AsOptional(v) == IF v.type = "NoneType" THEN NoString ELSE Some(v.s)

\* a configured API name is one fragment, or the empty string
NameOf(item) == IF item = <<>> THEN "" ELSE item[1]

\* _start_zeromq_listener is reached once the topics were read, are truthy,
\* and the port was read (lines 235-242)
ListenerStartsMutBeforePort(topicsRead, tps, portRead) ==
    topicsRead /\ ValueTruthy(tps)

ListenerStarts(topicsRead, tps, portRead) ==
    topicsRead /\ ValueTruthy(tps) /\ portRead

\* on_load_configuration over the snapshot in self.config: the settings are
\* read in the order of the code, and the first ValueError ends the call
OnLoadConfiguration ==
    /\ phase = "constructed"
    /\ NoDestroyBegun
    /\ LET Read(setting, default_value, return_type, required, is_file_path) ==
               GetSettingFromConfig(config, setting, default_value,
                                    return_type, required, is_file_path)
           Ok(r) == r.raised = ""
           uid == Read("serviceUniqueId", NoneValue, "str", FALSE, FALSE)
           host == Read("host", NoneValue, "str", TRUE, FALSE)
           api_port == Read("apiPort", IntValue(_DEFAULT_API_PORT), "int",
                           FALSE, FALSE)
           names == Read("apiNames", ListValue(<<>>), "list", FALSE, FALSE)
           api_key == Read("apiKey", NoneValue, "str", TRUE, FALSE)
           verify_certificate ==
               Read("verifyCertificate", BoolValue(TRUE), "bool", FALSE, FALSE)
           verify_cert_bundle ==
               Read("verifyCertBundle", NoneValue, "str", FALSE, TRUE)
           client_certificate ==
               Read("clientCertificate", NoneValue, "str", FALSE, TRUE)
           client_key == Read("clientKey", NoneValue, "str", FALSE, TRUE)
           tps == Read("zeroMqNotificationTopics", ListValue(<<>>), "list",
                      FALSE, FALSE)
           zeromq_port == Read("zeroMqPort", IntValue(_DEFAULT_ZEROMQ_PORT),
                              "int", FALSE, FALSE)
           namesRead == Ok(uid) /\ Ok(host) /\ Ok(api_port) /\ Ok(names)
           clientBuilt ==
               /\ namesRead
               /\ ValueTruthy(names.value)
               /\ Ok(api_key)
               /\ Ok(verify_certificate)
               /\ ValueTruthy(verify_certificate.value) => Ok(verify_cert_bundle)
               /\ Ok(client_certificate)
               /\ Ok(client_key)
           topicsRead ==
               /\ namesRead
               /\ ValueTruthy(names.value) => clientBuilt
               /\ Ok(tps)
           portRead == topicsRead /\ Ok(zeromq_port)
           loaded == topicsRead /\ (ValueTruthy(tps.value) => portRead)
       IN  /\ phase' = IF loaded THEN "loaded" ELSE "failed"
           /\ service_unique_id' =
                IF Ok(uid) THEN AsOptional(uid.value) ELSE service_unique_id
           /\ api_names' =
                IF namesRead
                THEN [i \in 1..Len(names.value.l) |-> NameOf(names.value.l[i])]
                ELSE api_names
           /\ api_client' = IF clientBuilt THEN "PyMISP" ELSE api_client
           /\ topics' = IF topicsRead THEN tps.value.l ELSE topics
           /\ IF ListenerStarts(topicsRead, tps.value, portRead)
              THEN /\ zeromq_socket' = "open"
                   /\ zeromq_thread' = "started"
                   /\ lpc' = "check"
              ELSE UNCHANGED <<zeromq_socket, zeromq_thread, lpc>>
    /\ UNCHANGED <<requestVars, configVars, regpc, regpos, api_methods,
                   warnings, service, callbacks, destroyed, lockOwner,
                   clientAlive, inbox, message, received, events, dpc, calls,
                   returned, closeCount, joinCount, exitCount, sentAfterClose,
                   stream, pollErrors>>

----------------------------------------------------------------------------
(* The relay and its shutdown *)

ConfigInit ==
    /\ config = NoConfig
    /\ resolved = <<>>

Init == RelayInit /\ RequestInit /\ RegisterInit /\ ConfigInit

NextOver(ids, msgs) ==
    \/ \E uid \in ids, tps \in TopicConfigs : LoadConfiguration(uid, <<>>, tps)
    \/ \E msg \in msgs : Deliver(msg)
    \/ ListenerCheck
    \/ ListenerPollReady
    \/ ListenerPollError
    \/ ListenerRecv
    \/ \E raises \in BOOLEAN : ListenerSend(raises)
    \/ \E c \in Callers : DestroyCall(c)
    \/ \E c \in Callers : DestroySuper(c)
    \/ \E c \in Callers : DestroyAcquire(c)
    \/ \E c \in Callers : DestroyTest(c)
    \/ \E c \in Callers : DestroyClose(c)
    \/ \E c \in Callers : DestroyJoin(c)
    \/ \E c \in Callers : DestroyReturn(c)

Next == NextOver(IdValues, RawMessages)

Spec == Init /\ [][Next]_vars

\* Termination does not depend on what the messages say: the fair
\* specification runs the same threads over one instance id and one message.
\* Every thread that can take a step eventually takes one.
FairNext == NextOver({NoString}, {<<"foo">>})

FairSpec ==
    /\ Init /\ [][FairNext]_vars
    /\ WF_vars(ListenerStep)
    /\ \A c \in Callers : WF_vars(DestroyStep(c))

----------------------------------------------------------------------------
(* The request dispatcher *)

RequestNext ==
    \/ \E p \in Payloads : OnRequest(p)
    \/ \E i \in 1..MaxRequests, outcome \in Outcomes : Invoke(i, outcome)
    \/ \E i \in 1..MaxRequests : Respond(i)

RequestSpec == Init /\ [][RequestNext]_vars

----------------------------------------------------------------------------
(* The registration of the services *)

RegisterNext ==
    \/ \E uid \in IdValues, names \in NameLists :
            LoadConfiguration(uid, names, <<>>)
    \/ RegisterBegin
    \/ ResolveName
    \/ ResolveDone
    \/ CreateService
    \/ AddRequestCallback
    \/ RegisterService

RegisterSpec == Init /\ [][RegisterNext]_vars

----------------------------------------------------------------------------
(* Loading the configuration *)

\* the application has read its configuration file before the call
LoadInit ==
    /\ RelayInit /\ RequestInit /\ RegisterInit
    /\ config \in Configs
    /\ resolved = <<>>

ConfigNext ==
    \/ OnLoadConfiguration
    \/ \E msg \in {<<"foo">>, <<"bar", SP, "b">>} : Deliver(msg)

ConfigSpec == LoadInit /\ [][ConfigNext]_vars

----------------------------------------------------------------------------
(* Single reads of the configuration *)

ResolverInit ==
    /\ RelayInit /\ RequestInit /\ RegisterInit
    /\ config \in ResolverConfigs
    /\ resolved = <<>>

\* a path is a string: is_file_path goes with return_type str
FilePathFlags(return_type) == IF return_type = "str" THEN BOOLEAN ELSE {FALSE}

ResolverNext ==
    \/ \E setting \in {"host", "apiKey"}, return_type \in ReturnTypes,
          required \in BOOLEAN :
            \E default_value \in Defaults(return_type),
               is_file_path \in FilePathFlags(return_type) :
                ResolveSetting(setting, default_value, return_type, required,
                               is_file_path)

ResolverSpec == ResolverInit /\ [][ResolverNext]_vars

----------------------------------------------------------------------------
(* The dispatcher of a registered service *)

\* a request reaches on_request once its topic is registered
Dispatch(p) ==
    /\ regpc = "done"
    /\ callbacks # <<>>
    /\ OnRequest(p)

DispatchNext ==
    \/ \E names \in {<<"search", "nope">>}, tps \in {<<>>, <<<<"foo">>>>} :
            LoadConfiguration(Some(<<"id">>), names, tps)
    \/ RegisterBegin
    \/ ResolveName
    \/ ResolveDone
    \/ CreateService
    \/ AddRequestCallback
    \/ RegisterService
    \/ \E p \in Payloads : Dispatch(p)
    \/ \E i \in 1..MaxRequests, outcome \in Outcomes : Invoke(i, outcome)
    \/ \E i \in 1..MaxRequests : Respond(i)

DispatchSpec == Init /\ [][DispatchNext]_vars

----------------------------------------------------------------------------
(* Shutdown *)

InDestroy == {c \in Callers : dpc[c] # "idle"}

\* C1: however many destroy() calls are made, one after another or by
\* concurrent callers, the socket is closed at most once, the thread is joined
\* at most once, the listener thread ends at most once, and exactly once by
\* the time a destroy() call has returned; no call is cut short: every call
\* begun is still in progress or has returned.
C1_ShutdownIdempotent ==
    /\ closeCount <= 1
    /\ joinCount <= 1
    /\ exitCount <= 1
    /\ (returned > 0 /\ zeromq_thread # None) => exitCount = 1
    /\ (returned > 0 /\ zeromq_socket # None) => closeCount = 1
    /\ calls = returned + Cardinality(InDestroy)

\* two destroy() calls have returned on a service with a running relay
C1_Witness ==
    /\ returned >= 2
    /\ closeCount = 1
    /\ joinCount = 1
    /\ exitCount = 1

\* C2: destroy() sets the flag before it closes the socket and closes the
\* socket before it joins; once a destroy() call has returned the listener
\* thread has ended and no event is published any more; at most one event is
\* published after the socket was closed.
C2_OrderState ==
    /\ zeromq_socket = "closed" => destroyed
    /\ (joinCount > 0 \/ \E c \in Callers : dpc[c] = "join") =>
            (destroyed /\ zeromq_socket # "open")
    /\ returned > 0 => (destroyed /\ ListenerGone /\ zeromq_socket # "open")
    /\ sentAfterClose <= 1

C2_ShutdownOrder ==
    /\ []C2_OrderState
    /\ [][returned > 0 => events' = events]_vars

\* destroy() has returned after the listener published the message that was
\* in flight when the socket was closed
C2_Witness ==
    /\ returned > 0
    /\ sentAfterClose = 1
    /\ lpc = "exited"

\* C3: every destroy() call returns, whatever the listener was doing when it
\* was made.
C3_DestroyReturns ==
    \A c \in Callers : (dpc[c] # "idle") ~> (dpc[c] = "idle")

\* a caller waits in join while the listener is blocked in poll on the socket
\* just closed
C3_Witness ==
    /\ \E c \in Callers : dpc[c] = "join"
    /\ lpc = "poll"
    /\ zeromq_socket = "closed"
    /\ inbox = <<>>

----------------------------------------------------------------------------
(* Relay *)

\* C4: the events published are the events of the messages the stream
\* queued, in the order it queued them: none out of order, none twice, none
\* left out; only the message being forwarded is still to be published.
C4_RelayOrder ==
    /\ Len(received) <= Len(stream)
    /\ \A i \in 1..Len(received) : received[i] = stream[i]
    /\ Len(received) = Len(events) + (IF lpc = "send" THEN 1 ELSE 0)
    /\ \A i \in 1..Len(events) :
            events[i].ev = MakeEvent(service_unique_id, stream[i])

\* two different messages were forwarded one after the other
C4_Witness ==
    /\ Len(events) = 2
    /\ stream[1] # stream[2]
    /\ events[1].ev # events[2].ev

\* the topic every event starts with, for the configured instance id
ExpectedTopicBase ==
    <<"/opendxl-misp/service", "/zeromq-notifications">>
        \o (IF service_unique_id \in {NoString, Some(<<>>)} THEN <<>>
            ELSE <<"/">> \o service_unique_id[1])
        \o <<"/">>

HasSpace(s) == \E i \in 1..Len(s) : s[i] = SP

\* C5: each received message gives one event; its topic is the base, the
\* instance id when one is set, and the part of the message before its first
\* space; its payload is all that follows that space; a message with no space
\* is all topic, with an empty payload.
C5_EventOfMessage ==
    /\ Len(received) = Len(events) + (IF lpc = "send" THEN 1 ELSE 0)
    /\ \A i \in 1..Len(events) :
        LET m == received[i]
            e == events[i].ev
            t == SubSeq(e.topic, Len(ExpectedTopicBase) + 1, Len(e.topic))
        IN  /\ IsPrefix(ExpectedTopicBase, e.topic)
            /\ ~HasSpace(t)
            /\ IF HasSpace(m)
               THEN t \o <<SP>> \o e.payload = m
               ELSE t = m /\ e.payload = <<>>

\* "foo/bar hello world" was forwarded under an instance id
C5_Witness ==
    \E i \in 1..Len(events) :
        /\ received[i] = <<"foo", "/", "bar", SP, "hello", SP, "world">>
        /\ events[i].ev.payload = <<"hello", SP, "world">>
        /\ events[i].ev.topic =
              <<"/opendxl-misp/service", "/zeromq-notifications", "/", "id",
                "/", "foo", "/", "bar">>

----------------------------------------------------------------------------
(* Request dispatcher *)

ResponsesFor(i) == {j \in 1..Len(responses) : responses[j].request = i}

Finished(i) == requests[i].st \in {"done", "raised"}

\* a string of one or more of the characters 0-9
DecimalOnly(s) ==
    Len(s) > 0 /\ \A i \in 1..Len(s) : s[i] \in {"0", "1", "2", "3", "4", "5", "6", "7", "8", "9"}

\* the payload's "event" is a string of digit characters int() does not accept
OddDigit(p) ==
    /\ p.kind = "object"
    /\ LET d == JsonPayloadToDict(p.members)
       IN  /\ HasKey(d, "event")
           /\ Get(d, "event").type = "str"
           /\ IsDigit(Get(d, "event").s)
           /\ ~DecimalOnly(Get(d, "event").s)

\* C6, as claimed: every request on_request has finished with was answered by
\* exactly one response, after one invocation of the operation.  (Stated for
\* the requests whose "event" int() can read, so that what refutes it is not
\* the failure of the coercion.)
C6_OneResponsePerRequest ==
    \A i \in 1..Len(requests) :
        (Finished(i) /\ ~OddDigit(requests[i].payload)) =>
            (Cardinality(ResponsesFor(i)) = 1 /\ requests[i].invoked = 1)

\* C6, amended: a request gets at most one response; exactly one, built from
\* that request and sent after the operation was invoked once, when
\* on_request returns; none when on_request is left by an exception.
C6_OneResponseOnReturn ==
    /\ \A j \in 1..Len(responses) : responses[j].request \in 1..Len(requests)
    /\ \A i \in 1..Len(requests) :
        /\ Cardinality(ResponsesFor(i)) <= 1
        /\ requests[i].invoked <= 1
        /\ requests[i].st = "done" <=> Cardinality(ResponsesFor(i)) = 1
        /\ requests[i].st = "done" => requests[i].invoked = 1
        /\ requests[i].st = "raised" => ResponsesFor(i) = {}

\* two requests handled at once were both answered, the later one first
C6_Witness ==
    /\ Len(responses) = 2
    /\ responses[1].request = 2
    /\ responses[2].request = 1
    /\ requests[1].st = "done"
    /\ requests[2].st = "done"

\* C7: when the operation raises, on_request is left by that exception and no
\* response is sent for the request.
C7_FailurePropagates ==
    \A i \in 1..Len(requests) :
        requests[i].outcome = "raises" =>
            /\ requests[i].st = "raised"
            /\ requests[i].exc = "OperationError"
            /\ ResponsesFor(i) = {}

\* one request's operation raised while another request was answered
C7_Witness ==
    /\ \E i \in 1..Len(requests) :
            requests[i].outcome = "raises" /\ requests[i].st = "raised"
    /\ \E i \in 1..Len(requests) :
            requests[i].st = "done" /\ ResponsesFor(i) # {}

\* the arguments the operation is to receive for a dict: "event" as an
\* integer when it is a digit-only string, everything else as it is
ExpectedArgs(d) ==
    { <<kv[1],
        IF kv[1] = "event" /\ kv[2].type = "str" /\ DecimalOnly(kv[2].s)
        THEN PyInt(IntOf(kv[2].s))
        ELSE kv[2]>> : kv \in d }

\* C8, as claimed: for every payload that is a JSON object the operation is
\* invoked with "event" turned into the integer when it is a digit-only
\* string and unchanged otherwise, and with every other field unchanged.
C8_EventCoercion ==
    \A i \in 1..Len(requests) :
        requests[i].payload.kind = "object" =>
            LET want == ExpectedArgs(JsonPayloadToDict(requests[i].payload.members))
            IN  IF requests[i].st = "invoke"
                THEN requests[i].dict = want
                ELSE requests[i].invoked = 1 /\ requests[i].args = want

\* the coercion is as claimed for every payload but those whose "event" is a
\* string of digit characters that int() rejects
CoercionApartFromOddDigits ==
    \A i \in 1..Len(requests) :
        (requests[i].payload.kind = "object" /\ ~OddDigit(requests[i].payload)) =>
            LET want == ExpectedArgs(JsonPayloadToDict(requests[i].payload.members))
            IN  IF requests[i].st = "invoke"
                THEN requests[i].dict = want
                ELSE requests[i].invoked = 1 /\ requests[i].args = want

\* C9, as claimed: a request with an empty or absent payload has the
\* operation invoked with no arguments, without parsing, and is answered.
C9_EmptyPayloadAnswered ==
    \A i \in 1..Len(requests) :
        (requests[i].payload.kind \in {"none", "empty"} /\ Finished(i)) =>
            /\ ~requests[i].parsed
            /\ requests[i].invoked = 1
            /\ requests[i].args = {}
            /\ Cardinality(ResponsesFor(i)) = 1

\* C9, amended: such a request has the operation invoked with no arguments,
\* without parsing; it is answered when the operation returns a result that
\* can be serialized, and not answered when the operation raises.
C9_EmptyPayloadNoArguments ==
    \A i \in 1..Len(requests) :
        requests[i].payload.kind \in {"none", "empty"} =>
            /\ ~requests[i].parsed
            /\ requests[i].dict = {}
            /\ requests[i].st # "invoke" =>
                    (requests[i].invoked = 1 /\ requests[i].args = {})
            /\ (Finished(i) /\ requests[i].outcome = "returns") =>
                    (requests[i].st = "done" /\ Cardinality(ResponsesFor(i)) = 1)
            /\ requests[i].outcome = "raises" => ResponsesFor(i) = {}

\* an absent and an empty payload were both handled and answered
C9_Witness ==
    /\ \E i \in 1..Len(requests) :
            /\ requests[i].payload.kind = "none"
            /\ requests[i].st = "done"
            /\ ResponsesFor(i) # {}
    /\ \E i \in 1..Len(requests) :
            /\ requests[i].payload.kind = "empty"
            /\ requests[i].st = "done"
            /\ ResponsesFor(i) # {}

----------------------------------------------------------------------------
(* Resolution of the API names *)

\* a name that is an attribute of the API client, and an invocable one
Resolvable(name) ==
    /\ \E a \in ClientAttributes : a.name = name
    /\ \A a \in ClientAttributes : a.name = name => a.kind = "method"

Unresolvable(name) == ~Resolvable(name)

NamesOf(methods) == [i \in 1..Len(methods) |-> methods[i].name]

\* C10: the bindings resolved are the configured names that are invocable
\* attributes of the API client, in the order configured; every other entry
\* of the list is reported once, in order, and the resolution goes on to its
\* end whatever the names are.
C10_Resolution ==
    /\ regpc = "resolving" =>
        LET seen == SubSeq(api_names, 1, regpos - 1)
        IN  /\ regpos \in 1..(Len(api_names) + 1)
            /\ NamesOf(api_methods) = SelectSeq(seen, Resolvable)
            /\ warnings = SelectSeq(seen, Unresolvable)
    /\ regpc = "resolved" =>
        /\ NamesOf(api_methods) = SelectSeq(api_names, Resolvable)
        /\ \A i \in 1..Len(api_methods) : api_methods[i].kind = "method"
        /\ warnings = SelectSeq(api_names, Unresolvable)
        /\ Len(api_methods) + Len(warnings) = Len(api_names)

\* a list naming a method and a data attribute was resolved: one binding,
\* one warning
C10_Witness ==
    /\ regpc = "resolved"
    /\ api_names = <<"root_url", "search">>
    /\ NamesOf(api_methods) = <<"search">>
    /\ warnings = <<"root_url">>

----------------------------------------------------------------------------
(* Service registration *)

ResolvedNames == {api_names[i] : i \in {j \in 1..Len(api_names) : Resolvable(api_names[j])}}

ExpectedServiceTopic(name) ==
    <<"/opendxl-misp/service", "/misp-api">>
        \o (IF service_unique_id \in {NoString, Some(<<>>)} THEN <<>>
            ELSE <<"/">> \o service_unique_id[1])
        \o <<"/", name>>

RegisteredTopics == {callbacks[i].topic : i \in 1..Len(callbacks)}

C11_WitnessNone ==
    /\ regpc = "done"
    /\ api_names = <<"nope", "root_url">>
    /\ service = None
    /\ callbacks = <<>>

----------------------------------------------------------------------------
(* Failures inside the listener loop *)

\* the listener leaves poll by the except branch: straight back to the test
PollFailed == lpc = "poll" /\ lpc' = "check"

\* C12: a failed poll, transient or on the closed socket, reads no message
\* and publishes no event, leaves the queue, the relay's flag, socket and
\* thread as they were, and takes the loop back to its test; the listener
\* never ends at the poll.
C12_PollFailureSwallowed ==
    /\ [][PollFailed \/ pollErrors' # pollErrors =>
            /\ lpc' = "check"
            /\ UNCHANGED <<inbox, message, received, events, exitCount,
                           destroyed, zeromq_socket, zeromq_thread, topics>>]_vars
    /\ [][lpc = "poll" => lpc' \in {"poll", "check", "recv"}]_vars

\* after a transient poll failure the loop went on and received a message
C12_Witness ==
    /\ pollErrors = 1
    /\ ~destroyed
    /\ events = <<>>
    /\ lpc = "send"

ListenerEnded == lpc \in {"exited", "died"}

\* C13: the listener thread has ended only if the destroyed flag is set.
\* Stated for the runs in which the bus client is still up, so that the
\* publish on a client already torn down plays no part.
C13_OnlyDestroyStops == (ListenerEnded /\ clientAlive) => destroyed

----------------------------------------------------------------------------
(* Configuration errors *)

\* C14: when on_load_configuration has ended with a configuration error, no
\* subscription socket is open, no listener thread was started, and no
\* notification is ever queued or taken.
C14_NoPartialStart ==
    phase = "failed" =>
        /\ zeromq_socket = None
        /\ zeromq_thread = None
        /\ lpc = "none"
        /\ inbox = <<>>

\* the call failed on the port of the notification stream, after the API
\* client was built and the topics were read
C14_Witness ==
    /\ phase = "failed"
    /\ api_client = "PyMISP"
    /\ topics = <<<<"foo">>>>
    /\ config.zeroMqPort = Some(<<"x">>)

----------------------------------------------------------------------------
(* The contract of _get_setting_from_config *)

Call == resolved[1]

Present == Call.snapshot[Call.setting] # NoString

\* the raw value is nothing but spaces
Blank == Strip(Call.snapshot[Call.setting][1]) = <<>>

----------------------------------------------------------------------------
(* Uniqueness of the service topics *)

\* C16: once on_register_services is over, every handler added is under the
\* topic of its method, service type, instance id when set, method name, and
\* no topic was given two handlers.
C16_TopicUniqueness ==
    regpc = "done" =>
        /\ \A i \in 1..Len(callbacks) :
                callbacks[i].topic =
                    ExpectedServiceTopic(callbacks[i].api_method.name)
        /\ \A i, j \in 1..Len(callbacks) :
                callbacks[i].topic = callbacks[j].topic => i = j

----------------------------------------------------------------------------
(* When the relay is created *)

\* the setting is present and names a topic: more than spaces and commas
ListsATopic ==
    /\ config.zeroMqNotificationTopics # NoString
    /\ \E i \in 1..Len(config.zeroMqNotificationTopics[1]) :
            config.zeroMqNotificationTopics[1][i] \notin {SP, COMMA}

\* C17: after a load that succeeded, the socket is open and the listener
\* thread started exactly when the configuration lists a notification topic;
\* with the setting absent or blank there is no socket and no thread.
C17_RelayIffTopics ==
    phase = "loaded" =>
        IF ListsATopic
        THEN zeromq_socket = "open" /\ zeromq_thread = "started"
        ELSE zeromq_socket = None /\ zeromq_thread = None /\ lpc = "none"

----------------------------------------------------------------------------
(* Accesses to the destroyed flag *)

\* the thread of _process_zeromq_messages; it never takes self.__lock
Listener == "zeromq"

\* caller c tests the flag, and sets it when it was clear (lines 289-290)
DestroyAccessesFlag(c) == dpc[c] = "test" /\ dpc'[c] # "test"

\* the listener evaluates the condition of its while (line 265)
ListenerReadsFlag == lpc = "check" /\ lpc' # "check"

\* callers inside the with block of destroy()
InsideLock == {c \in Callers : dpc[c] \in {"test", "close", "join", "release"}}

\* C18: every read and every write of the destroyed flag, by a destroy()
\* caller or by the listener loop, is made by a thread holding the lock.
C18_FlagUnderLock ==
    [][/\ \A c \in Callers : DestroyAccessesFlag(c) => lockOwner = c
       /\ ListenerReadsFlag => lockOwner = Listener]_vars

\* C18, amended: every access of destroy() to the flag, and so every write
\* of the flag, is made by the caller holding the lock; at most one caller is
\* inside the with block; the flag only goes from clear to set, in the step
\* that tested it. The listener loop reads the flag without the lock.
C18_DestroyUnderLock ==
    /\ [](/\ Cardinality(InsideLock) <= 1
          /\ \A c \in InsideLock : lockOwner = c
          /\ lockOwner # Listener)
    /\ [][\A c \in Callers : DestroyAccessesFlag(c) => lockOwner = c]_vars
    /\ [][destroyed' # destroyed =>
            /\ ~destroyed /\ destroyed'
            /\ \E c \in Callers : DestroyAccessesFlag(c) /\ lockOwner = c]_vars

\* the listener read the flag and left its loop while t1 held the lock in
\* destroy(), with t2 waiting for the lock
C18_Witness ==
    /\ lockOwner = "t1"
    /\ dpc["t1"] = "join"
    /\ dpc["t2"] = "lock"
    /\ lpc = "exited"

----------------------------------------------------------------------------
(* Independence of the request handlers *)

Invoked(i) == requests[i].invoked = 1

ResponsePayloads(i) == {responses[k].payload : k \in ResponsesFor(i)}

\* what a handler has done is what its own request and the outcome of its
\* own call of the operation make it: two requests of one payload are
\* decoded alike, call their operation with the same arguments, and with one
\* outcome end alike with the same response
HandledAlike ==
    /\ \A i \in 1..Len(requests) :
            /\ Invoked(i) => requests[i].args = requests[i].dict
            /\ \A k \in ResponsesFor(i) :
                    responses[k].payload = requests[i].outcome
    /\ \A i, j \in 1..Len(requests) :
            requests[i].payload = requests[j].payload =>
                /\ requests[i].dict = requests[j].dict
                /\ requests[i].parsed = requests[j].parsed
                /\ (Invoked(i) /\ Invoked(j)) =>
                        requests[i].args = requests[j].args
                /\ (/\ Finished(i) /\ Finished(j)
                    /\ requests[i].outcome = requests[j].outcome) =>
                        /\ requests[i].st = requests[j].st
                        /\ requests[i].exc = requests[j].exc
                        /\ ResponsePayloads(i) = ResponsePayloads(j)

\* a step of one handler leaves every other request as it was, and a
\* response sent in the step is that handler's
OneHandlerPerStep ==
    \A i \in 1..Len(requests) :
        requests'[i] # requests[i] =>
            /\ Len(requests') = Len(requests)
            /\ \A j \in 1..Len(requests) : j # i => requests'[j] = requests[j]
            /\ responses' # responses =>
                    /\ Len(responses') = Len(responses) + 1
                    /\ SubSeq(responses', 1, Len(responses)) = responses
                    /\ responses'[Len(responses')].request = i

\* C19: handlers running at once do not affect each other: the arguments and
\* the response of a request follow from that request and the outcome of its
\* own call; a step of one handler changes no other request; and no step of
\* a handler changes the bindings, the destroyed flag, the socket, the
\* thread or anything else of the service.
C19_HandlersIndependent ==
    /\ []HandledAlike
    /\ [][OneHandlerPerStep]_vars
    /\ [][requestVars' # requestVars =>
            UNCHANGED <<relayVars, registerVars, configVars>>]_vars

\* two requests of one payload were in progress together on a registered
\* service with a running relay, and the later one was answered first
C19_Witness ==
    /\ regpc = "done"
    /\ zeromq_socket = "open"
    /\ Len(requests) = 2
    /\ requests[1].payload = requests[2].payload
    /\ requests[1].payload.kind = "object"
    /\ requests[1].st = "done"
    /\ requests[2].st = "done"
    /\ responses[1].request = 2

----------------------------------------------------------------------------
(* Publishing during shutdown *)

\* C20: every event the listener handed to self.client.send_event was handed
\* over while the DXL client had not been torn down by destroy().
C20_PublishOnLiveClient == \A i \in 1..Len(events) : events[i].live

====
